---- MODULE Spec2Model ----
(***************************************************************************)
(* Model of azkaban_cli.azkaban.Azkaban: the session manager that holds a  *)
(* (host, session_id) pair and turns login / upload / schedule / execute   *)
(* into calls of the request layer (azkaban_cli.api).                      *)
(*                                                                         *)
(* Python values are encoded as follows.  An optional value is a sequence: *)
(* None is <<>> and a present value v is <<v>>.  A host string is the      *)
(* sequence of its characters.  A parsed JSON body is the set of its keys  *)
(* together with the values of the keys the code reads.                    *)
(***************************************************************************)
EXTENDS Integers, Sequences, FiniteSets, TLC

VARIABLES host,        \* self.__host
          session_id,  \* self.__session_id
          files,       \* zip archives that exist on disk
          op,          \* the public method called last
          args,        \* its arguments
          resp,        \* what the request layer gave that call
          outcome,     \* how that call ended: a returned value or a raised exception
          got,         \* the dictionary returned by get_logged_session
          trace        \* the side effects of that call, in order

vars == <<host, session_id, files, op, args, resp, outcome, got, trace>>

----------------------------------------------------------------------------
(* Bounds and input sets *)

MaxHostLen == 2

HostChars == {"h", "/"}

Hosts == UNION {[1..n -> HostChars] : n \in 0..MaxHostLen}

SessionIds == {"", "s1", "s2"}

Users == {"user"}

Passwords == {"pw"}

Paths == {"myproj", "missing"}

ExistingPaths == {"myproj"}

None == <<>>

Some(v) == <<v>>

OptHosts == {None} \cup {Some(h) : h \in Hosts}

OptSessionIds == {None} \cup {Some(s) : s \in SessionIds}

OptProjects == {None, Some("p")}

OptZipNames == {None, Some("z")}

----------------------------------------------------------------------------
(* The request layer: what a request carries and what may come back *)

NoResponse == [kind |-> "none", keys |-> {}, sid |-> "", status |-> ""]

ConnectionError == [kind |-> "conn", keys |-> {}, sid |-> "", status |-> ""]

Body(keys, sid, status) == [kind |-> "body", keys |-> keys, sid |-> sid, status |-> status]

LoginResponses ==
    {ConnectionError}
        \cup {Body(K, "", "") : K \in SUBSET {"error"}}
        \cup {Body(K \cup {"session.id"}, s, "") : K \in SUBSET {"error"}, s \in SessionIds}

UploadResponses ==
    {ConnectionError} \cup {Body(K, "", "") : K \in SUBSET {"error", "version"}}

ScheduleResponses ==
    {ConnectionError}
        \cup {Body(K, "", "") : K \in SUBSET {"error", "message", "scheduleId"}}
        \cup {Body(K \cup {"status"}, "", st) :
                 K \in SUBSET {"error", "message", "scheduleId"}, st \in {"error", "success"}}

ExecuteResponses ==
    {ConnectionError} \cup {Body(K, "", "") : K \in SUBSET {"error", "message"}}

\* response_json[k], for a key k the body has
Item(r, k) ==
    CASE k = "session.id" -> r.sid
      [] k = "status" -> r.status
      [] k = "error" -> "server error"
      [] k = "message" -> "server message"
      [] k = "version" -> "7"
      [] k = "scheduleId" -> "42"

login_request(h, user, password) ==
    [type |-> "request", api |-> "login", host |-> h, user |-> user, password |-> password]

upload_request(h, s, project, zip_path) ==
    [type |-> "request", api |-> "upload", host |-> h, session_id |-> s,
     project |-> project, zip_path |-> zip_path]

schedule_request(h, s, project, flow, cron) ==
    [type |-> "request", api |-> "schedule", host |-> h, session_id |-> s,
     project |-> project, flow |-> flow, cron |-> cron]

execute_request(h, s, project, flow) ==
    [type |-> "request", api |-> "execute", host |-> h, session_id |-> s,
     project |-> project, flow |-> flow]

----------------------------------------------------------------------------
(* Side effects other than requests *)

LogError(msg) == [type |-> "log", level |-> "error", msg |-> msg]

LogInfo(msg) == [type |-> "log", level |-> "info", msg |-> msg]

ArchiveCreated(zip_path) == [type |-> "archive", zip_path |-> zip_path]

ArchiveRemoved(zip_path) == [type |-> "remove", zip_path |-> zip_path]

\* the call's record: method, arguments, response, result and side effects
Call(o, a, r, out, tr) ==
    /\ op' = o
    /\ args' = a
    /\ resp' = r
    /\ outcome' = out
    /\ trace' = tr

NoDict == [host |-> None, session_id |-> None]

----------------------------------------------------------------------------
(* Helpers of the class *)

validate_host_once(h) ==
    IF Len(h) > 0 /\ h[Len(h)] = "/" THEN SubSeq(h, 1, Len(h) - 1) ELSE h

RECURSIVE validate_host(_)
validate_host(h) ==
    IF Len(h) > 0 /\ h[Len(h)] = "/"
    THEN validate_host(SubSeq(h, 1, Len(h) - 1))
    ELSE h

\* Python truthiness of an optional string: None and "" are false
Truthy(x) == x # None /\ x[1] # ""

\* os.path.basename(os.path.abspath(path)) of a one-component relative path
basename(path) == path

\* the name make_archive(zip_name, 'zip', path) gives the archive
zip_path_of(zip_name) == <<zip_name, "zip">>

path_exists_always(path) == TRUE

\* make_archive raises FileNotFoundError, creating nothing, unless the path exists
path_exists(path) == path \in ExistingPaths

set_logged_session(h, s) ==
    /\ host' = h
    /\ session_id' = s

----------------------------------------------------------------------------
(* Public methods *)

Init ==
    /\ host = None
    /\ session_id = None
    /\ files = {}
    /\ op = "__init__"
    /\ args = [none |-> TRUE]
    /\ resp = NoResponse
    /\ outcome = "None"
    /\ got = NoDict
    /\ trace = <<>>

GetLoggedSession ==
    /\ got' = [host |-> host, session_id |-> session_id]
    /\ Call("get_logged_session", [none |-> TRUE], NoResponse, "dict", <<>>)
    /\ UNCHANGED <<host, session_id, files>>

SetLoggedSession(h, s) ==
    /\ set_logged_session(h, s)
    /\ Call("set_logged_session", [host |-> h, session_id |-> s], NoResponse, "None", <<>>)
    /\ got' = NoDict
    /\ UNCHANGED files

Logout_keep_host ==
    /\ set_logged_session(host, None)
    /\ Call("logout", [none |-> TRUE], NoResponse, "None", <<>>)
    /\ got' = NoDict
    /\ UNCHANGED files

Logout ==
    /\ set_logged_session(None, None)
    /\ Call("logout", [none |-> TRUE], NoResponse, "None", <<>>)
    /\ got' = NoDict
    /\ UNCHANGED files

Login_commit_first(h, user, password) ==
    LET valid_host == validate_host(h)
        a == [host |-> h, user |-> user, password |-> password]
        req == login_request(valid_host, user, password)
    IN  /\ got' = NoDict
        /\ UNCHANGED files
        /\ \E r \in LoginResponses :
            IF r.kind = "conn"
            THEN /\ Call("login", a, r, "False", <<req, LogError("Could not connect to host")>>)
                 /\ UNCHANGED <<host, session_id>>
            ELSE IF "session.id" \notin r.keys
            THEN /\ Call("login", a, r, IF "error" \in r.keys THEN "False" ELSE "KeyError",
                         IF "error" \in r.keys
                         THEN <<req, LogError(Item(r, "error"))>> ELSE <<req>>)
                 /\ UNCHANGED <<host, session_id>>
            ELSE /\ set_logged_session(Some(valid_host), Some(Item(r, "session.id")))
                 /\ IF "error" \in r.keys
                    THEN Call("login", a, r, "False", <<req, LogError(Item(r, "error"))>>)
                    ELSE Call("login", a, r, "True", <<req, LogInfo(<<"Logged as", user>>)>>)

Login(h, user, password) ==
    LET valid_host == validate_host(h)
        a == [host |-> h, user |-> user, password |-> password]
        req == login_request(valid_host, user, password)
    IN  /\ got' = NoDict
        /\ UNCHANGED files
        /\ \E r \in LoginResponses :
            IF r.kind = "conn"
            THEN /\ Call("login", a, r, "False", <<req, LogError("Could not connect to host")>>)
                 /\ UNCHANGED <<host, session_id>>
            ELSE IF "error" \in r.keys
            THEN /\ Call("login", a, r, "False", <<req, LogError(Item(r, "error"))>>)
                 /\ UNCHANGED <<host, session_id>>
            ELSE IF "session.id" \notin r.keys
            THEN /\ Call("login", a, r, "KeyError", <<req>>)
                 /\ UNCHANGED <<host, session_id>>
            ELSE /\ set_logged_session(Some(valid_host), Some(Item(r, "session.id")))
                 /\ Call("login", a, r, "True", <<req, LogInfo(<<"Logged as", user>>)>>)

Upload_remove_on_success(path, project, zip_name) ==
    LET a == [path |-> path, project |-> project, zip_name |-> zip_name]
        proj == IF ~Truthy(project) THEN basename(path) ELSE project[1]
        zip == IF ~Truthy(zip_name) THEN proj ELSE zip_name[1]
        zip_path == zip_path_of(zip)
        req == upload_request(host, session_id, proj, zip_path)
    IN  /\ got' = NoDict
        /\ UNCHANGED <<host, session_id>>
        /\ IF ~Truthy(session_id)
           THEN /\ Call("upload", a, NoResponse, "False", <<LogError("You are not logged")>>)
                /\ UNCHANGED files
           ELSE IF ~path_exists(path)
           THEN /\ Call("upload", a, NoResponse, "False", <<LogError("FileNotFoundError")>>)
                /\ UNCHANGED files
           ELSE \E r \in UploadResponses :
                IF r.kind = "conn"
                THEN /\ files' = files \cup {zip_path}
                     /\ Call("upload", a, r, "ConnectionError", <<ArchiveCreated(zip_path), req>>)
                ELSE IF "error" \in r.keys
                THEN /\ files' = files \cup {zip_path}
                     /\ Call("upload", a, r, "False",
                             <<ArchiveCreated(zip_path), req, LogError(Item(r, "error"))>>)
                ELSE IF "version" \notin r.keys
                THEN /\ files' = files \cup {zip_path}
                     /\ Call("upload", a, r, "KeyError", <<ArchiveCreated(zip_path), req>>)
                ELSE /\ files' = files \ {zip_path}
                     /\ Call("upload", a, r, "True",
                             <<ArchiveCreated(zip_path), req,
                               LogInfo(<<"Project updated to version", proj, Item(r, "version")>>),
                               ArchiveRemoved(zip_path)>>)

Upload(path, project, zip_name) ==
    LET a == [path |-> path, project |-> project, zip_name |-> zip_name]
        proj == IF ~Truthy(project) THEN basename(path) ELSE project[1]
        zip == IF ~Truthy(zip_name) THEN proj ELSE zip_name[1]
        zip_path == zip_path_of(zip)
        req == upload_request(host, session_id, proj, zip_path)
    IN  /\ got' = NoDict
        /\ UNCHANGED <<host, session_id>>
        /\ IF ~Truthy(session_id)
           THEN /\ Call("upload", a, NoResponse, "False", <<LogError("You are not logged")>>)
                /\ UNCHANGED files
           ELSE IF ~path_exists(path)
           THEN /\ Call("upload", a, NoResponse, "False", <<LogError("FileNotFoundError")>>)
                /\ UNCHANGED files
           ELSE \E r \in UploadResponses :
                IF r.kind = "conn"
                THEN /\ files' = files \cup {zip_path}
                     /\ Call("upload", a, r, "ConnectionError", <<ArchiveCreated(zip_path), req>>)
                ELSE /\ files' = files \ {zip_path}
                     /\ IF "error" \in r.keys
                        THEN Call("upload", a, r, "False",
                                  <<ArchiveCreated(zip_path), req, ArchiveRemoved(zip_path),
                                    LogError(Item(r, "error"))>>)
                        ELSE IF "version" \notin r.keys
                        THEN Call("upload", a, r, "KeyError",
                                  <<ArchiveCreated(zip_path), req, ArchiveRemoved(zip_path)>>)
                        ELSE Call("upload", a, r, "True",
                                  <<ArchiveCreated(zip_path), req, ArchiveRemoved(zip_path),
                                    LogInfo(<<"Project updated to version", proj,
                                              Item(r, "version")>>)>>)

Schedule_no_status(project, flow, cron) ==
    LET a == [project |-> project, flow |-> flow, cron |-> cron]
        req == schedule_request(host, session_id, project, flow, cron)
    IN  /\ got' = NoDict
        /\ UNCHANGED <<host, session_id, files>>
        /\ IF ~Truthy(session_id)
           THEN Call("schedule", a, NoResponse, "False", <<LogError("You are not logged")>>)
           ELSE \E r \in ScheduleResponses :
                IF r.kind = "conn"
                THEN Call("schedule", a, r, "ConnectionError", <<req>>)
                ELSE IF "error" \in r.keys
                THEN Call("schedule", a, r, "False", <<req, LogError(Item(r, "error"))>>)
                ELSE IF "message" \notin r.keys
                THEN Call("schedule", a, r, "KeyError", <<req>>)
                ELSE IF "scheduleId" \notin r.keys
                THEN Call("schedule", a, r, "KeyError", <<req, LogInfo(Item(r, "message"))>>)
                ELSE Call("schedule", a, r, "True",
                          <<req, LogInfo(Item(r, "message")),
                            LogInfo(<<"scheduleId", Item(r, "scheduleId")>>)>>)

Schedule(project, flow, cron) ==
    LET a == [project |-> project, flow |-> flow, cron |-> cron]
        req == schedule_request(host, session_id, project, flow, cron)
    IN  /\ got' = NoDict
        /\ UNCHANGED <<host, session_id, files>>
        /\ IF ~Truthy(session_id)
           THEN Call("schedule", a, NoResponse, "False", <<LogError("You are not logged")>>)
           ELSE \E r \in ScheduleResponses :
                IF r.kind = "conn"
                THEN Call("schedule", a, r, "ConnectionError", <<req>>)
                ELSE IF "error" \in r.keys
                THEN Call("schedule", a, r, "False", <<req, LogError(Item(r, "error"))>>)
                ELSE IF "status" \notin r.keys
                THEN Call("schedule", a, r, "KeyError", <<req>>)
                ELSE IF Item(r, "status") = "error"
                THEN IF "message" \notin r.keys
                     THEN Call("schedule", a, r, "KeyError", <<req>>)
                     ELSE Call("schedule", a, r, "False", <<req, LogError(Item(r, "message"))>>)
                ELSE IF "message" \notin r.keys
                THEN Call("schedule", a, r, "KeyError", <<req>>)
                ELSE IF "scheduleId" \notin r.keys
                THEN Call("schedule", a, r, "KeyError", <<req, LogInfo(Item(r, "message"))>>)
                ELSE Call("schedule", a, r, "True",
                          <<req, LogInfo(Item(r, "message")),
                            LogInfo(<<"scheduleId", Item(r, "scheduleId")>>)>>)

Execute_guard_host(project, flow) ==
    LET a == [project |-> project, flow |-> flow]
        req == execute_request(host, session_id, project, flow)
    IN  /\ got' = NoDict
        /\ UNCHANGED <<host, session_id, files>>
        /\ IF host = None
           THEN Call("execute", a, NoResponse, "False", <<LogError("You are not logged")>>)
           ELSE \E r \in ExecuteResponses :
                IF r.kind = "conn"
                THEN Call("execute", a, r, "ConnectionError", <<req>>)
                ELSE IF "error" \in r.keys
                THEN Call("execute", a, r, "False", <<req, LogError(Item(r, "error"))>>)
                ELSE IF "message" \notin r.keys
                THEN Call("execute", a, r, "KeyError", <<req>>)
                ELSE Call("execute", a, r, "True", <<req, LogInfo(Item(r, "message"))>>)

Execute_logout_on_error(project, flow) ==
    LET a == [project |-> project, flow |-> flow]
        req == execute_request(host, session_id, project, flow)
    IN  /\ got' = NoDict
        /\ UNCHANGED files
        /\ IF ~Truthy(session_id)
           THEN /\ Call("execute", a, NoResponse, "False", <<LogError("You are not logged")>>)
                /\ UNCHANGED <<host, session_id>>
           ELSE \E r \in ExecuteResponses :
                IF r.kind = "conn"
                THEN /\ Call("execute", a, r, "ConnectionError", <<req>>)
                     /\ UNCHANGED <<host, session_id>>
                ELSE IF "error" \in r.keys
                THEN /\ Call("execute", a, r, "False", <<req, LogError(Item(r, "error"))>>)
                     /\ set_logged_session(None, None)
                ELSE /\ UNCHANGED <<host, session_id>>
                     /\ IF "message" \notin r.keys
                        THEN Call("execute", a, r, "KeyError", <<req>>)
                        ELSE Call("execute", a, r, "True", <<req, LogInfo(Item(r, "message"))>>)

Execute(project, flow) ==
    LET a == [project |-> project, flow |-> flow]
        req == execute_request(host, session_id, project, flow)
    IN  /\ got' = NoDict
        /\ UNCHANGED <<host, session_id, files>>
        /\ IF ~Truthy(session_id)
           THEN Call("execute", a, NoResponse, "False", <<LogError("You are not logged")>>)
           ELSE \E r \in ExecuteResponses :
                IF r.kind = "conn"
                THEN Call("execute", a, r, "ConnectionError", <<req>>)
                ELSE IF "error" \in r.keys
                THEN Call("execute", a, r, "False", <<req, LogError(Item(r, "error"))>>)
                ELSE IF "message" \notin r.keys
                THEN Call("execute", a, r, "KeyError", <<req>>)
                ELSE Call("execute", a, r, "True", <<req, LogInfo(Item(r, "message"))>>)

----------------------------------------------------------------------------
(* Specifications *)

Next ==
    \/ GetLoggedSession
    \/ \E h \in OptHosts, s \in OptSessionIds : SetLoggedSession(h, s)
    \/ Logout
    \/ \E h \in Hosts, user \in Users, password \in Passwords : Login(h, user, password)
    \/ \E path \in Paths, project \in OptProjects, zip_name \in OptZipNames :
           Upload(path, project, zip_name)
    \/ Schedule("p", "flow", "0 0 * * * ?")
    \/ Execute("p", "flow")

Spec == Init /\ [][Next]_vars

----------------------------------------------------------------------------
(* Vocabulary of the properties *)

Guarded == {"upload", "schedule", "execute"}

RequestsIn(tr) == {i \in DOMAIN tr : tr[i].type = "request"}

ArchivesIn(tr) == {i \in DOMAIN tr : tr[i].type = "archive"}

Paired == (host = None) <=> (session_id = None)

PairedArgs(a) == (a.host = None) <=> (a.session_id = None)

\* the success fields each kind of request is answered with
ExpectedKeys(o) ==
    CASE o = "login" -> {"session.id"}
      [] o = "upload" -> {"version"}
      [] o = "schedule" -> {"status", "message", "scheduleId"}
      [] o = "execute" -> {"message"}

EndsInSlash(h) == Len(h) > 0 /\ h[Len(h)] = "/"

----------------------------------------------------------------------------
(* Properties *)

\* C1: a login that fails, by a connection error of the request layer or by
\* an 'error' key in the body, returns False and leaves host and session_id
\* as they were before the call, whatever they were.
C1_LoginAllOrNothing ==
    [][(op' = "login" /\ (resp'.kind = "conn" \/ "error" \in resp'.keys))
          => (outcome' = "False" /\ host' = host /\ session_id' = session_id)]_vars

\* a failed re-login after which the earlier session is still stored
C1_Witness ==
    /\ op = "login"
    /\ outcome = "False"
    /\ "error" \in resp.keys
    /\ Truthy(session_id)
    /\ host # None

\* C2: while no session id is stored, upload, schedule and execute return
\* False, send no request and create no archive.
C2_GuardedRejectWhenLoggedOut ==
    [][(session_id = None /\ op' \in Guarded)
          => /\ outcome' = "False"
             /\ resp'.kind = "none"
             /\ RequestsIn(trace') = {}
             /\ ArchivesIn(trace') = {}
             /\ files' = files]_vars

\* an upload rejected while logged out, although a host is stored
C2_Witness ==
    /\ op = "upload"
    /\ session_id = None
    /\ host # None
    /\ outcome = "False"

\* C3 as stated: host and session_id are both present or both absent in
\* every reachable state.
C3_SessionPaired == Paired

\* C3 as amended: host and session_id start both absent; set_logged_session
\* stores exactly what it is given; logout and a successful login leave the
\* two both absent, respectively both present; and no call other than a
\* set_logged_session given exactly one of the two turns a paired state into
\* an unpaired one.
C3_PairedUnlessSetterUnpairs ==
    [][/\ (op' = "set_logged_session")
             => (host' = args'.host /\ session_id' = args'.session_id)
       /\ (op' = "logout") => (host' = None /\ session_id' = None)
       /\ (op' = "login" /\ outcome' = "True") => (host' # None /\ session_id' # None)
       /\ (Paired /\ (op' = "set_logged_session" => PairedArgs(args'))) => Paired']_vars

\* a paired logged-in state left paired by a guarded operation
C3_Witness ==
    /\ op \in Guarded
    /\ resp.kind = "body"
    /\ host # None
    /\ session_id # None

\* C4: login, upload, schedule and execute always end by returning a
\* boolean, never by raising, and a body with neither 'error' nor the
\* expected success fields gives False.
C4_NothingThrown ==
    (op \in Guarded \cup {"login"})
        => /\ outcome \in {"True", "False"}
           /\ (resp.kind = "body" /\ "error" \notin resp.keys
                 /\ ~(ExpectedKeys(op) \subseteq resp.keys))
                 => outcome = "False"

\* C5: once the upload request has returned a body, the archive the call
\* created has been removed, after the request and before anything is
\* logged about the response, and it does not exist when upload ends.
C5_UploadCleanup ==
    (op = "upload" /\ resp.kind = "body")
        => \E i, j, k \in DOMAIN trace :
               /\ i < j
               /\ j < k
               /\ trace[i].type = "archive"
               /\ trace[j].type = "request"
               /\ trace[j].zip_path = trace[i].zip_path
               /\ trace[k].type = "remove"
               /\ trace[k].zip_path = trace[i].zip_path
               /\ \A l \in DOMAIN trace : trace[l].type = "log" => k < l
               /\ trace[i].zip_path \notin files

\* an upload answered with an 'error' body
C5_Witness ==
    /\ op = "upload"
    /\ resp.kind = "body"
    /\ "error" \in resp.keys
    /\ outcome = "False"

\* C6: schedule, once it has a body: an 'error' key gives False; no 'error'
\* and a status of "error" gives False with the body's message logged as the
\* error; True is returned only for a body with no 'error' key and a status
\* other than "error".
C6_ScheduleTwoFailureChannels ==
    /\ (op = "schedule" /\ resp.kind = "body" /\ "error" \in resp.keys)
           => outcome = "False"
    /\ (op = "schedule" /\ resp.kind = "body" /\ "error" \notin resp.keys
          /\ "status" \in resp.keys /\ Item(resp, "status") = "error"
          /\ "message" \in resp.keys)
           => /\ outcome = "False"
              /\ trace[Len(trace)] = LogError(Item(resp, "message"))
    /\ (op = "schedule" /\ outcome = "True")
           => /\ resp.kind = "body"
              /\ "error" \notin resp.keys
              /\ "status" \in resp.keys
              /\ Item(resp, "status") # "error"

\* a schedule refused through the status channel alone
C6_Witness ==
    /\ op = "schedule"
    /\ resp.kind = "body"
    /\ "error" \notin resp.keys
    /\ "status" \in resp.keys
    /\ Item(resp, "status") = "error"
    /\ "message" \in resp.keys
    /\ outcome = "False"

\* C7: a login whose body has no 'error' key (and carries the session.id the
\* claim speaks of) returns True and stores the stripped host with that
\* session.id; get_logged_session then returns that pair; and a following
\* execute whose body has no 'error' key returns True.
C7_SuccessfulLoginCommits ==
    [][/\ (op' = "login" /\ resp'.kind = "body" /\ "error" \notin resp'.keys
             /\ "session.id" \in resp'.keys)
             => /\ outcome' = "True"
                /\ host' = Some(validate_host(args'.host))
                /\ session_id' = Some(Item(resp', "session.id"))
       /\ (op = "login" /\ outcome = "True" /\ op' = "get_logged_session")
             => got' = [host |-> host, session_id |-> session_id]
       /\ (op = "login" /\ outcome = "True" /\ op' = "execute"
             /\ resp'.kind = "body" /\ "error" \notin resp'.keys)
             => outcome' = "True"]_vars

\* C8: an upload made while logged in with a path that does not exist
\* returns False, sends no request, creates no archive, leaves the files on
\* disk and the session as they were.
C8_UploadMissingPath ==
    [][(op' = "upload" /\ Truthy(session_id) /\ args'.path \notin ExistingPaths)
          => /\ outcome' = "False"
             /\ RequestsIn(trace') = {}
             /\ ArchivesIn(trace') = {}
             /\ files' = files
             /\ host' = host
             /\ session_id' = session_id]_vars

\* a logged-in upload of the missing path
C8_Witness ==
    /\ op = "upload"
    /\ args.path \notin ExistingPaths
    /\ Truthy(session_id)
    /\ outcome = "False"

\* C9: the host a login sends its request to, and stores on success, is the
\* given host without its trailing '/' characters: it does not end in '/',
\* it is a prefix of the given host, what was removed is '/' only, a host
\* with no trailing '/' is used unchanged, and stripping again changes nothing.
C9_HostNormalization ==
    (op = "login")
        => LET given == args.host
               used == trace[1].host
           IN  /\ trace[1].type = "request"
               /\ ~EndsInSlash(used)
               /\ Len(used) <= Len(given)
               /\ SubSeq(given, 1, Len(used)) = used
               /\ \A i \in (Len(used) + 1)..Len(given) : given[i] = "/"
               /\ ~EndsInSlash(given) => used = given
               /\ validate_host(used) = used
               /\ outcome = "True" => host = Some(used)

\* a successful login to a host given with two trailing slashes
C9_Witness ==
    /\ op = "login"
    /\ outcome = "True"
    /\ Len(args.host) >= 2
    /\ args.host[Len(args.host)] = "/"
    /\ args.host[Len(args.host) - 1] = "/"
    /\ Len(host[1]) <= Len(args.host) - 2

\* C10: get_logged_session, upload, schedule and execute leave host and
\* session_id unchanged however they end, and every request they send
\* carries the host and session_id stored when they were called.
C10_OnlySessionOpsChangeSession ==
    [][(op' \in Guarded \cup {"get_logged_session"})
          => /\ host' = host
             /\ session_id' = session_id
             /\ \A i \in RequestsIn(trace') :
                    /\ trace'[i].host = host
                    /\ trace'[i].session_id = session_id]_vars

\* an execute refused by the server, the session still stored
C10_Witness ==
    /\ op = "execute"
    /\ resp.kind = "body"
    /\ "error" \in resp.keys
    /\ outcome = "False"
    /\ Truthy(session_id)

====
